---- MODULE Spec2Model ----
(***************************************************************************)
(* Model of the single-file C preprocessor of src/src/main.rs:             *)
(*   preprocess_main_c = read main.c; inline_includes; reorder_elements;   *)
(*                       handle_macros; write preprocessed_main.c          *)
(* A text is a sequence of one-character strings, so that line splitting,  *)
(* the three regular expressions and the format! calls are computed on     *)
(* characters exactly as the code computes them.                           *)
(***************************************************************************)
EXTENDS Integers, Sequences, FiniteSets, TLC

(***************************************************************************)
(* Bounds of the model.                                                    *)
(***************************************************************************)
\* Largest number of lines of an input text.
MaxLines == 3

(***************************************************************************)
(* Characters.                                                             *)
(***************************************************************************)
LF == "\n"
CR == "\r"
TAB == "\t"
QUOTE == "\""

\* Perl class \w of the regex crate, restricted to ASCII.
WordChars ==
  {"a","b","c","d","e","f","g","h","i","j","k","l","m","n","o","p","q","r","s",
   "t","u","v","w","x","y","z",
   "A","B","C","D","E","F","G","H","I","J","K","L","M","N","O","P","Q","R","S",
   "T","U","V","W","X","Y","Z",
   "0","1","2","3","4","5","6","7","8","9","_"}

\* Perl class \s of the regex crate, restricted to ASCII.
SpaceChars == {" ", TAB, LF, CR, "\f"}

IsWord(c) == c \in WordChars
IsSpace(c) == c \in SpaceChars

Min(S) == CHOOSE x \in S : \A y \in S : x <= y
Max(S) == CHOOSE x \in S : \A y \in S : x >= y

\* Whether text s holds the literal lit at position p (1-based).
StartsAt(s, p, lit) ==
  /\ p >= 1
  /\ p + Len(lit) - 1 <= Len(s)
  /\ \A k \in 1..Len(lit) : s[p + k - 1] = lit[k]

\* First position >= p of s that holds no whitespace (Len(s)+1 when none).
SkipSpaces(s, p) ==
  Min({q \in p..(Len(s) + 1) : q = Len(s) + 1 \/ ~IsSpace(s[q])})

\* First position >= p of s that holds no word character.
SkipWord(s, p) ==
  Min({q \in p..(Len(s) + 1) : q = Len(s) + 1 \/ ~IsWord(s[q])})

\* Last position <= p of s that holds no whitespace (0 when none).
SkipSpacesBack(s, p) ==
  Max({q \in 0..p : q = 0 \/ ~IsSpace(s[q])})

\* Last position <= p of s that holds no word character (0 when none).
SkipWordBack(s, p) ==
  Max({q \in 0..p : q = 0 \/ ~IsWord(s[q])})

\* format!("{}", n) of an unsigned integer: its decimal digits.
Digit(d) == <<"0","1","2","3","4","5","6","7","8","9">>[d + 1]
RECURSIVE ToDecimal(_)
ToDecimal(n) == IF n < 10 THEN <<Digit(n)>>
                ELSE ToDecimal(n \div 10) \o <<Digit(n % 10)>>

(***************************************************************************)
(* str::lines: the text is split after every "\n"; a piece loses its final *)
(* "\n" and then one "\r" before it; a last piece without "\n" is yielded  *)
(* as it is; nothing is yielded after a final "\n".                        *)
(***************************************************************************)
RECURSIVE Lines(_)
Lines(code) ==
  IF code = <<>> THEN <<>>
  ELSE LET nl == {i \in 1..Len(code) : code[i] = LF}
       IN IF nl = {} THEN <<code>>
          ELSE LET k == Min(nl)
                   piece == SubSeq(code, 1, k - 1)
                   line == IF piece # <<>> /\ piece[Len(piece)] = CR
                           THEN SubSeq(piece, 1, Len(piece) - 1)
                           ELSE piece
               IN <<line>> \o Lines(SubSeq(code, k + 1, Len(code)))

(***************************************************************************)
(* The three recognition patterns.  A pattern is searched anywhere in the  *)
(* line (Regex::captures is unanchored) and the leftmost match wins.       *)
(***************************************************************************)
NoMatch == [matched |-> FALSE]

HashInclude == <<"#","i","n","c","l","u","d","e">>
DotHQuote == <<".","h",QUOTE>>

\* include_regex = #include\s+"(.+\.h)" tried at position p: the end of
\* group 1 when it matches there, 0 otherwise.  .+ is greedy, so the group
\* ends at the last .h" that leaves it at least one character before.
IncludeAt(line, p) ==
  IF ~StartsAt(line, p, HashInclude) THEN 0
  ELSE LET s == p + Len(HashInclude)
           q == SkipSpaces(line, s)
       IN IF q = s \/ q > Len(line) \/ line[q] # QUOTE THEN 0
          ELSE LET ends == {e \in (q + 2)..Len(line) : StartsAt(line, e, DotHQuote)}
               IN IF ends = {} THEN 0 ELSE Max(ends) + 1

\* include_regex.captures(line): group 1, the header file name.
include_regex(line) ==
  LET starts == {p \in 1..Len(line) : IncludeAt(line, p) # 0}
  IN IF starts = {} THEN NoMatch
     ELSE LET p == Min(starts)
              q == SkipSpaces(line, p + Len(HashInclude))
          IN [matched |-> TRUE,
              header_file |-> SubSeq(line, q + 1, IncludeAt(line, p))]

\* function_regex = (\w+\s+\w+\s*\(.*\)\s*\{) : does the line hold a match.
\* Read backwards from a "(" at p: optional whitespace, a whole word,
\* whitespace, a word character; forwards: some ")" followed by optional
\* whitespace and "{".
function_regex(line) ==
  \E p \in 1..Len(line) :
    /\ line[p] = "("
    /\ LET w2 == SkipSpacesBack(line, p - 1)
           s1 == SkipWordBack(line, w2)
           w1 == SkipSpacesBack(line, s1)
       IN /\ w2 >= 1 /\ IsWord(line[w2])
          /\ s1 >= 1 /\ IsSpace(line[s1])
          /\ w1 >= 1 /\ IsWord(line[w1])
    /\ \E q \in (p + 1)..Len(line) :
         /\ line[q] = ")"
         /\ LET b == SkipSpaces(line, q + 1)
            IN b <= Len(line) /\ line[b] = "{"

HashDefine == <<"#","d","e","f","i","n","e">>

\* macro_regex = #define\s+(\w+)\s*(.*) tried at position p.
DefineAt(line, p) ==
  /\ StartsAt(line, p, HashDefine)
  /\ LET s == p + Len(HashDefine)
         n == SkipSpaces(line, s)
     IN n > s /\ n <= Len(line) /\ IsWord(line[n])

\* macro_regex.captures(line): group 1 (the name) and group 2 (the value).
macro_regex(line) ==
  LET starts == {p \in 1..Len(line) : DefineAt(line, p)}
  IN IF starts = {} THEN NoMatch
     ELSE LET p == Min(starts)
              n == SkipSpaces(line, p + Len(HashDefine))
              e == SkipWord(line, n)
              v == SkipSpaces(line, e)
          IN [matched |-> TRUE,
              macro_name |-> SubSeq(line, n, e - 1),
              macro_value |-> SubSeq(line, v, Len(line))]

(***************************************************************************)
(* Results.  A stage returns Ok(text) or Err(message), or panics.          *)
(***************************************************************************)
Ok(text) == [tag |-> "Ok", val |-> text]
Err(msg) == [tag |-> "Err", msg |-> msg]
Panic(msg) == [tag |-> "Panic", msg |-> msg]

(***************************************************************************)
(* The file system: a function from file names to [readable, content].     *)
(* fs::read_to_string succeeds exactly on a readable file of the function. *)
(***************************************************************************)
Readable(files, name) == name \in DOMAIN files /\ files[name].readable

(***************************************************************************)
(* inline_includes                                                         *)
(***************************************************************************)
\* InlineLine with a bug: an include line whose file cannot be read is kept
\* as literal text instead of being dropped.
InlineLineKeepsMissing(line, files) ==
  LET captures == include_regex(line)
  IN IF captures.matched /\ Readable(files, captures.header_file)
     THEN files[captures.header_file].content
     ELSE line \o <<LF>>

\* What one line adds to inlined_code (the body of the loop, lines 43-53).
InlineLine(line, files) ==
  LET captures == include_regex(line)
  IN IF captures.matched
     THEN IF Readable(files, captures.header_file)
          THEN files[captures.header_file].content
          ELSE <<>>
     ELSE line \o <<LF>>

RECURSIVE InlineLoop(_, _)
InlineLoop(lines, files) ==
  IF lines = <<>> THEN <<>>
  ELSE InlineLine(Head(lines), files) \o InlineLoop(Tail(lines), files)

inline_includes(code, files) == Ok(InlineLoop(Lines(code), files))

\* The header files inline_includes tries to read, in order (line 45).
RECURSIVE HeaderReads(_)
HeaderReads(lines) ==
  IF lines = <<>> THEN <<>>
  ELSE LET captures == include_regex(Head(lines))
       IN (IF captures.matched THEN <<captures.header_file>> ELSE <<>>)
          \o HeaderReads(Tail(lines))

(***************************************************************************)
(* reorder_elements                                                        *)
(***************************************************************************)
FunctionPrefix == <<"F","u","n","c","t","i","o","n","_">>
MarkerPrefix ==
  <<"/","/"," ","F","u","n","c","t","i","o","n"," ","s","t","a","r","t",":"," ">>

\* FunctionName with a bug: the line index is left out of the identity.
FunctionNameNoIndex(idx) == FunctionPrefix

\* format!("Function_{}", idx)
FunctionName(idx) == FunctionPrefix \o ToDecimal(idx)

\* Lines 67-74: the vector functions, one (function_name, idx) per matching
\* line; idx counts lines from 0 (enumerate).
RECURSIVE ExtractFrom(_, _)
ExtractFrom(lines, k) ==
  IF k > Len(lines) THEN <<>>
  ELSE (IF function_regex(lines[k]) THEN <<<<FunctionName(k - 1), k - 1>>>> ELSE <<>>)
       \o ExtractFrom(lines, k + 1)

ExtractFunctions(code) == ExtractFrom(Lines(code), 1)

\* graph.add_node once per element: node weights, NodeIndex i at place i+1.
GraphNodes(functions) == [k \in 1..Len(functions) |-> functions[k][1]]

\* node_map.insert(function_name, node): a later insert of a name wins.
NodeMap(functions) ==
  [name \in {functions[k][1] : k \in 1..Len(functions)} |->
     Max({k \in 1..Len(functions) : functions[k][1] = name}) - 1]

\* usize::MAX, on the scale of the model's integers: every length of the
\* model is far below it.
UsizeMax == 2147483647

\* functions.len() - 1 on usize: a panic when overflow checks are compiled
\* in (debug profile), the wrapped value otherwise (release profile).
LoopBound(len, overflow_checks) ==
  IF len >= 1 THEN Ok(len - 1)
  ELSE IF overflow_checks THEN Panic("attempt to subtract with overflow")
  ELSE Ok(UsizeMax)

\* AddEdges with a bug: each edge points from the later element to the
\* earlier one.
RECURSIVE AddEdgesReversed(_, _, _, _)
AddEdgesReversed(functions, i, bound, edges) ==
  IF i >= bound THEN Ok(edges)
  ELSE IF i >= Len(functions) \/ i + 1 >= Len(functions)
       THEN Panic("index out of bounds")
  ELSE LET name_a == functions[i + 1][1]
           name_b == functions[i + 2][1]
           node_map == NodeMap(functions)
       IN AddEdgesReversed(functions, i + 1, bound,
                           Append(edges, <<node_map[name_b], node_map[name_a]>>))

\* Lines 77-83 from iteration i on: the edges added, or the panic of an
\* index past the end of functions.
RECURSIVE AddEdges(_, _, _, _)
AddEdges(functions, i, bound, edges) ==
  IF i >= bound THEN Ok(edges)
  ELSE IF i >= Len(functions) \/ i + 1 >= Len(functions)
       THEN Panic("index out of bounds")
  ELSE LET name_a == functions[i + 1][1]
           name_b == functions[i + 2][1]
           node_map == NodeMap(functions)
       IN AddEdges(functions, i + 1, bound,
                   Append(edges, <<node_map[name_a], node_map[name_b]>>))

\* The graph after lines 61-83, or the panic.
BuildGraph(functions, overflow_checks) ==
  LET bound == LoopBound(Len(functions), overflow_checks)
  IN IF bound.tag = "Panic" THEN bound
     ELSE LET added == AddEdges(functions, 0, bound.val, <<>>)
          IN IF added.tag = "Panic" THEN added
             ELSE Ok([nodes |-> GraphNodes(functions), edges |-> added.val])

(***************************************************************************)
(* petgraph::algo::toposort (called on line 86): a depth-first search from *)
(* every node, highest index first, that records the nodes as they finish; *)
(* the reversed finish order is the answer unless a node of it has a       *)
(* predecessor that comes later, which is a cycle.                         *)
(***************************************************************************)
\* g.neighbors(nx): targets of nx's outgoing edges, newest edge first.
RECURSIVE Neighbors(_, _)
Neighbors(edges, nx) ==
  IF edges = <<>> THEN <<>>
  ELSE Neighbors(Tail(edges), nx)
       \o (IF Head(edges)[1] = nx THEN <<Head(edges)[2]>> ELSE <<>>)

RECURSIVE PushUndiscovered(_, _, _)
PushUndiscovered(stack, succs, discovered) ==
  IF succs = <<>> THEN stack
  ELSE PushUndiscovered(
         IF Head(succs) \in discovered THEN stack ELSE Append(stack, Head(succs)),
         Tail(succs), discovered)

RECURSIVE DfsWhile(_, _)
DfsWhile(edges, st) ==
  IF st.cycle \/ st.stack = <<>> THEN st
  ELSE LET nx == st.stack[Len(st.stack)]
       IN IF nx \notin st.discovered
          THEN LET succs == Neighbors(edges, nx)
               IN IF \E k \in 1..Len(succs) : succs[k] = nx
                  THEN [st EXCEPT !.cycle = TRUE]
                  ELSE DfsWhile(edges,
                         [st EXCEPT !.discovered = @ \cup {nx},
                                    !.stack = PushUndiscovered(@, succs, st.discovered \cup {nx})])
          ELSE DfsWhile(edges,
                 [st EXCEPT !.stack = SubSeq(@, 1, Len(@) - 1),
                            !.finished = @ \cup {nx},
                            !.finish_stack = IF nx \in st.finished THEN @
                                             ELSE Append(@, nx)])

RECURSIVE DfsFrom(_, _, _)
DfsFrom(edges, i, st) ==
  IF st.cycle \/ i < 0 THEN st
  ELSE IF i \in st.discovered THEN DfsFrom(edges, i - 1, st)
  ELSE DfsFrom(edges, i - 1, DfsWhile(edges, [st EXCEPT !.stack = <<i>>]))

Reverse(s) == [k \in 1..Len(s) |-> s[Len(s) + 1 - k]]

toposort(graph) ==
  LET st == DfsFrom(graph.edges, Len(graph.nodes) - 1,
                    [stack |-> <<>>, discovered |-> {}, finished |-> {},
                     finish_stack |-> <<>>, cycle |-> FALSE])
      order == Reverse(st.finish_stack)
      late == \E k \in 1..Len(order) : \E e \in 1..Len(graph.edges) :
                /\ graph.edges[e][2] = order[k]
                /\ graph.edges[e][1] # order[k]
                /\ \A j \in 1..(k - 1) : order[j] # graph.edges[e][1]
  IN IF st.cycle \/ late THEN Err("Cycle") ELSE Ok(order)

\* Lines 89-95: for each sorted node, the marker line and the raw line of
\* the first element of functions that carries the node's weight.
RECURSIVE Reassemble(_, _, _, _)
Reassemble(sorted_nodes, graph, functions, lines) ==
  IF sorted_nodes = <<>> THEN <<>>
  ELSE LET weight == graph.nodes[Head(sorted_nodes) + 1]
           found == {k \in 1..Len(functions) : functions[k][1] = weight}
           block == IF found = {} THEN <<>>
                    ELSE LET function == functions[Min(found)]
                         IN MarkerPrefix \o function[1] \o <<LF>>
                            \o lines[function[2] + 1] \o <<LF>>
       IN block \o Reassemble(Tail(sorted_nodes), graph, functions, lines)

reorder_elements(code, overflow_checks) ==
  LET functions == ExtractFunctions(code)
      built == BuildGraph(functions, overflow_checks)
  IN IF built.tag = "Panic" THEN built
     ELSE LET sorted_nodes == toposort(built.val)
          IN IF sorted_nodes.tag = "Err"
             THEN Err("Cycle detected in dependencies")
             ELSE Ok(Reassemble(sorted_nodes.val, built.val, functions, Lines(code)))

(***************************************************************************)
(* handle_macros                                                           *)
(***************************************************************************)
CfgOpen == <<"#","[","c","f","g","(">>
CfgClose == <<")","]">>
ConstOpen == <<"c","o","n","s","t"," ">>
ConstMid == <<":"," ","&","s","t","r"," ","="," ",QUOTE>>
ConstClose == <<QUOTE,";">>

\* MacroLine with a bug: the test for an empty value is missing, so a flag
\* macro becomes a constant bound to the empty string.
MacroLineAlwaysConst(line) ==
  LET captures == macro_regex(line)
  IN IF captures.matched
     THEN ConstOpen \o captures.macro_name \o ConstMid
          \o captures.macro_value \o ConstClose \o <<LF>>
     ELSE line \o <<LF>>

\* MacroLine with a bug: the line break of a line that is no macro is lost.
MacroLineNoNewline(line) ==
  LET captures == macro_regex(line)
  IN IF captures.matched
     THEN IF captures.macro_value = <<>>
          THEN CfgOpen \o captures.macro_name \o CfgClose \o <<LF>>
          ELSE ConstOpen \o captures.macro_name \o ConstMid
               \o captures.macro_value \o ConstClose \o <<LF>>
     ELSE line

\* What one line adds to processed_code (the body of the loop, lines 106-119).
MacroLine(line) ==
  LET captures == macro_regex(line)
  IN IF captures.matched
     THEN IF captures.macro_value = <<>>
          THEN CfgOpen \o captures.macro_name \o CfgClose \o <<LF>>
          ELSE ConstOpen \o captures.macro_name \o ConstMid
               \o captures.macro_value \o ConstClose \o <<LF>>
     ELSE line \o <<LF>>

RECURSIVE MacroLoop(_)
MacroLoop(lines) ==
  IF lines = <<>> THEN <<>>
  ELSE MacroLine(Head(lines)) \o MacroLoop(Tail(lines))

handle_macros(code) == Ok(MacroLoop(Lines(code)))

(***************************************************************************)
(* Inputs of the model: texts of at most MaxLines lines drawn from a few   *)
(* representative lines, with "\n" or "\r\n" line ends and with or without *)
(* a line end after the last line.                                         *)
(***************************************************************************)
LineF == <<"i","n","t"," ","f","(",")"," ","{">>
LineG == <<"i","n","t"," ","g","(",")"," ","{">>
LineX == <<"x",";">>
LineDefineDebug == <<"#","d","e","f","i","n","e"," ","D","E","B","U","G">>
LineDefineMax == <<"#","d","e","f","i","n","e"," ","M","A","X"," ","1","0","0">>
LineDefineX5 == <<"#","d","e","f","i","n","e"," ","X"," ","5">>
LineIncludeA == <<"#","i","n","c","l","u","d","e"," ",QUOTE,"a",".","h",QUOTE>>
LineIncludeB == <<"#","i","n","c","l","u","d","e"," ",QUOTE,"b",".","h",QUOTE>>

\* The lines of main.c in the pipeline's runs.
PipelineLines ==
  {LineF, LineG, LineX, LineDefineDebug, LineIncludeA, LineIncludeB}

\* The lines of the texts handle_macros is called on directly.
MacroLines ==
  {LineF, LineX, <<>>, LineDefineDebug, LineDefineMax, LineDefineX5}

LineEnds == {<<LF>>, <<CR, LF>>}

RECURSIVE JoinLines(_, _, _)
JoinLines(lines, eol, final) ==
  IF lines = <<>> THEN <<>>
  ELSE IF Len(lines) = 1 THEN Head(lines) \o (IF final THEN eol ELSE <<>>)
  ELSE Head(lines) \o eol \o JoinLines(Tail(lines), eol, final)

Texts(lineSet) ==
  {JoinLines(ls, eol, final) :
     ls \in UNION {[1..n -> lineSet] : n \in 0..MaxLines},
     eol \in LineEnds, final \in BOOLEAN}

\* File names: input_file and output_file of main (lines 8-9), two headers.
MainC == <<"m","a","i","n",".","c">>
OutputC == <<"p","r","e","p","r","o","c","e","s","s","e","d","_",
             "m","a","i","n",".","c">>
HeaderA == <<"a",".","h">>
HeaderB == <<"b",".","h">>  \* named by LineIncludeB, in no file system

Missing == [readable |-> FALSE, content |-> <<>>]
File(text) == [readable |-> TRUE, content |-> text]

\* a.h: missing, a last line without line end, or one function line.
HeaderAStates ==
  {Missing, File(<<"i","n","t"," ","x">>),
   File(<<"i","n","t"," ","h","(",")"," ","{",LF>>)}

MainStates == {Missing} \cup {File(t) : t \in Texts(PipelineLines)}

\* The file systems of the runs: main.c and a.h as above; b.h never exists.
FileSystems ==
  {[name \in {MainC, HeaderA} |-> IF name = MainC THEN m ELSE a] :
     m \in MainStates, a \in HeaderAStates}

(***************************************************************************)
(* State.                                                                  *)
(***************************************************************************)
VARIABLES
  files,           \* the file system the run reads
  pc,              \* the stage preprocess_main_c runs next, or how it ended
  original_code,   \* line 20
  inlined_code,    \* line 23
  functions,       \* line 63, as reorder_elements left it
  graph,           \* line 61, as reorder_elements left it
  reordered_code,  \* line 26
  final_code,      \* line 29
  written,         \* the contents written to output_file, in order
  history,         \* the stages run so far, each with its result tag
  compiled,        \* the patterns Regex::new has built so far
  io,              \* the file reads and writes so far, in order
  arg,             \* direct call of handle_macros: its argument
  ret,             \* ... its result
  ret2             \* ... the result of calling it again on that result

pipeline == <<files, pc, original_code, inlined_code, functions, graph,
              reordered_code, final_code, written, history, compiled, io>>
harness == <<arg, ret, ret2>>
vars == <<pipeline, harness>>

NotCalled == [tag |-> "NotCalled"]
EmptyGraph == [nodes |-> <<>>, edges |-> <<>>]

StageOrder == <<"read", "inline", "reorder", "macros", "write">>
AllPatterns == {"include_regex", "function_regex", "macro_regex"}

\* RegexOf with a change: all three patterns are built at startup, before
\* the primary input is read.
RegexOfAtStartup(stage) ==
  IF stage = "read" THEN AllPatterns ELSE {}

\* The pattern a stage builds as it starts (lines 39, 66, 102).
RegexOf(stage) ==
  CASE stage = "inline" -> {"include_regex"}
    [] stage = "reorder" -> {"function_regex"}
    [] stage = "macros" -> {"macro_regex"}
    [] OTHER -> {}

\* Advance with a bug: the result of the stage is ignored.
AdvanceIgnoringErrors(stage, tag) ==
  IF stage = "write" THEN "done"
  ELSE StageOrder[1 + CHOOSE k \in 1..4 : StageOrder[k] = stage]

\* The ? after each stage's call (lines 20-32): the run goes on to the next
\* stage on Ok, returns the error on Err, and unwinds on a panic.
Advance(stage, tag) ==
  IF tag = "Ok"
  THEN IF stage = "write" THEN "done"
       ELSE StageOrder[1 + CHOOSE k \in 1..4 : StageOrder[k] = stage]
  ELSE IF tag = "Err" THEN "failed" ELSE "panicked"

IoEvent(op, file, patterns) == [op |-> op, file |-> file, compiled |-> patterns]

PipelineInit ==
  /\ pc = "read"
  /\ original_code = <<>>
  /\ inlined_code = <<>>
  /\ functions = <<>>
  /\ graph = EmptyGraph
  /\ reordered_code = <<>>
  /\ final_code = <<>>
  /\ written = <<>>
  /\ history = <<>>
  /\ compiled = {}
  /\ io = <<>>

Init ==
  /\ files \in FileSystems
  /\ PipelineInit
  /\ arg = <<>>
  /\ ret = NotCalled
  /\ ret2 = NotCalled

Ran(stage, tag) == Append(history, [stage |-> stage, tag |-> tag])

\* Line 20: fs::read_to_string(input_file)?
ReadInput ==
  /\ pc = "read"
  /\ LET tag == IF Readable(files, MainC) THEN "Ok" ELSE "Err"
     IN /\ original_code' = IF tag = "Ok" THEN files[MainC].content ELSE <<>>
        /\ io' = Append(io, IoEvent("read", MainC, compiled \cup RegexOf("read")))
        /\ compiled' = compiled \cup RegexOf("read")
        /\ history' = Ran("read", tag)
        /\ pc' = Advance("read", tag)
  /\ UNCHANGED <<files, inlined_code, functions, graph, reordered_code,
                 final_code, written, harness>>

\* Line 23: inline_includes(&original_code)?
InlineIncludes ==
  /\ pc = "inline"
  /\ LET result == inline_includes(original_code, files)
         patterns == compiled \cup RegexOf("inline")
         reads == HeaderReads(Lines(original_code))
     IN /\ inlined_code' = result.val
        /\ compiled' = patterns
        /\ io' = io \o [k \in 1..Len(reads) |-> IoEvent("read", reads[k], patterns)]
        /\ history' = Ran("inline", result.tag)
        /\ pc' = Advance("inline", result.tag)
  /\ UNCHANGED <<files, original_code, functions, graph, reordered_code,
                 final_code, written, harness>>

\* Line 26: reorder_elements(&inlined_code)?  The binary is built with or
\* without overflow checks.
ReorderElements ==
  /\ pc = "reorder"
  /\ \E overflow_checks \in BOOLEAN :
       LET result == reorder_elements(inlined_code, overflow_checks)
           built == BuildGraph(ExtractFunctions(inlined_code), overflow_checks)
       IN /\ functions' = ExtractFunctions(inlined_code)
          /\ graph' = IF built.tag = "Ok" THEN built.val ELSE EmptyGraph
          /\ reordered_code' = IF result.tag = "Ok" THEN result.val ELSE <<>>
          /\ history' = Ran("reorder", result.tag)
          /\ pc' = Advance("reorder", result.tag)
  /\ compiled' = compiled \cup RegexOf("reorder")
  /\ UNCHANGED <<files, original_code, inlined_code, final_code, written, io,
                 harness>>

\* Line 29: handle_macros(&reordered_code)?
HandleMacros ==
  /\ pc = "macros"
  /\ LET result == handle_macros(reordered_code)
     IN /\ final_code' = result.val
        /\ history' = Ran("macros", result.tag)
        /\ pc' = Advance("macros", result.tag)
  /\ compiled' = compiled \cup RegexOf("macros")
  /\ UNCHANGED <<files, original_code, inlined_code, functions, graph,
                 reordered_code, written, io, harness>>

\* Line 32: fs::write(output_file, final_code)?  The write succeeds or not.
WriteOutput ==
  /\ pc = "write"
  /\ \E tag \in {"Ok", "Err"} :
       /\ written' = IF tag = "Ok" THEN Append(written, final_code) ELSE written
       /\ history' = Ran("write", tag)
       /\ pc' = Advance("write", tag)
  /\ io' = Append(io, IoEvent("write", OutputC, compiled \cup RegexOf("write")))
  /\ compiled' = compiled \cup RegexOf("write")
  /\ UNCHANGED <<files, original_code, inlined_code, functions, graph,
                 reordered_code, final_code, harness>>

Next ==
  \/ ReadInput
  \/ InlineIncludes
  \/ ReorderElements
  \/ HandleMacros
  \/ WriteOutput

\* One run of preprocess_main_c (main, lines 7-15).
Spec == Init /\ [][Next]_vars

(***************************************************************************)
(* handle_macros called directly on a text, and again on its result.       *)
(***************************************************************************)
InitMacros ==
  /\ files = [name \in {MainC, HeaderA} |-> Missing]
  /\ PipelineInit
  /\ arg \in Texts(MacroLines)
  /\ ret = NotCalled
  /\ ret2 = NotCalled

CallHandleMacros ==
  /\ ret = NotCalled
  /\ ret' = handle_macros(arg)
  /\ UNCHANGED <<pipeline, arg, ret2>>

CallHandleMacrosAgain ==
  /\ ret # NotCalled
  /\ ret2 = NotCalled
  /\ ret2' = handle_macros(ret.val)
  /\ UNCHANGED <<pipeline, arg, ret>>

NextMacros ==
  \/ CallHandleMacros
  \/ CallHandleMacrosAgain

SpecMacros == InitMacros /\ [][NextMacros]_vars

(***************************************************************************)
(* Properties.                                                             *)
(***************************************************************************)
\* The k-th stage of StageOrder has run / has run and returned Ok.
StageRan(k) == Len(history) >= k
StageOk(k) == Len(history) >= k /\ history[k].tag = "Ok"

\* The marker line and the raw line of the element found on line idx
\* (counted from 0), as the output is to show them.
ExpectedBlock(idx, line) ==
  <<"/","/"," ","F","u","n","c","t","i","o","n"," ","s","t","a","r","t",":"," ",
    "F","u","n","c","t","i","o","n","_">> \o ToDecimal(idx) \o <<LF>>
  \o line \o <<LF>>

\* The blocks of the matching lines from line k on, by ascending line index.
RECURSIVE ExpectedReorder(_, _)
ExpectedReorder(lines, k) ==
  IF k > Len(lines) THEN <<>>
  ELSE (IF function_regex(lines[k]) THEN ExpectedBlock(k - 1, lines[k]) ELSE <<>>)
       \o ExpectedReorder(lines, k + 1)

\* Where the block of a node starts in the reordered text (0 when nowhere).
BlockStart(node) ==
  LET marker == MarkerPrefix \o graph.nodes[node + 1] \o <<LF>>
      at == {p \in 1..Len(reordered_code) : StartsAt(reordered_code, p, marker)}
  IN IF at = {} THEN 0 ELSE Min(at)

\* C1: when at least one line matched, the reorder stage succeeds and its
\* text is exactly, by ascending line index, one marker line naming the
\* element followed by the element's raw line, and nothing else; so for every
\* edge (a, b) of the graph the block of a starts before the block of b.
C1_ReorderKeepsExtractionOrder ==
  (StageRan(3) /\ functions # <<>>) =>
    /\ history[3].tag = "Ok"
    /\ reordered_code = ExpectedReorder(Lines(inlined_code), 1)
    /\ \A e \in 1..Len(graph.edges) :
         /\ BlockStart(graph.edges[e][1]) >= 1
         /\ BlockStart(graph.edges[e][1]) < BlockStart(graph.edges[e][2])

\* Two elements with a line that is no element between them were reordered.
C1_Witness ==
  /\ StageOk(3)
  /\ Len(functions) >= 2
  /\ Len(graph.edges) >= 1
  /\ functions[2][2] > functions[1][2] + 1

\* C2: after a successful run every macro-definition line of the primary
\* input shows in the written output as its declarative equivalent.
C2_MacrosReplacedInOutput ==
  pc = "done" =>
    LET input == Lines(original_code)
        output == Lines(written[1])
    IN \A k \in 1..Len(input) :
         macro_regex(input[k]).matched =>
           \E j \in 1..Len(output) : output[j] \o <<LF>> = MacroLine(input[k])

\* C3: the stages run in the order read, inline, reorder, macros, write;
\* only the last stage run may have failed, and then the run has ended; the
\* output file is written at most once, only after all five stages returned
\* Ok, and never in a run that failed.
C3_StagesInOrderStopAtFirstFailure ==
  /\ Len(history) <= Len(StageOrder)
  /\ \A k \in 1..Len(history) : history[k].stage = StageOrder[k]
  /\ \A k \in 1..(Len(history) - 1) : history[k].tag = "Ok"
  /\ (history # <<>> /\ history[Len(history)].tag # "Ok") =>
       pc \in {"failed", "panicked"}
  /\ pc \in {"failed", "panicked"} => written = <<>>
  /\ Len(written) <= 1
  /\ written # <<>> =>
       /\ Len(history) = Len(StageOrder)
       /\ \A k \in 1..Len(history) : history[k].tag = "Ok"
       /\ written[1] = final_code

\* A run that failed in a stage after the first one.
C3_Witness ==
  /\ pc \in {"failed", "panicked"}
  /\ Len(history) >= 3
  /\ written = <<>>

\* Whether line is an include line whose file cannot be read.
MissingInclude(line) ==
  /\ include_regex(line).matched
  /\ ~Readable(files, include_regex(line).header_file)

\* C4: for every include line whose file cannot be read, inline_includes
\* returns Ok and its text is what the lines before it yield followed by what
\* the lines after it yield (the line adds nothing, the rest is processed),
\* and the run goes on to the reorder stage.
C4_MissingIncludeIsDropped ==
  StageRan(2) =>
    LET input == Lines(original_code)
    IN /\ history[2].tag = "Ok"
       /\ pc = "reorder" \/ StageRan(3)
       /\ \A k \in 1..Len(input) :
            MissingInclude(input[k]) =>
              inlined_code =
                InlineLoop(SubSeq(input, 1, k - 1), files)
                \o InlineLoop(SubSeq(input, k + 1, Len(input)), files)

\* An unreadable include was met with a line after it, and reorder is next.
C4_Witness ==
  /\ pc = "reorder"
  /\ inlined_code # <<>>
  /\ \E k \in 1..(Len(Lines(original_code)) - 1) :
       /\ MissingInclude(Lines(original_code)[k])
       /\ ~include_regex(Lines(original_code)[k + 1]).matched

ExpectedCfgDebug == <<"#","[","c","f","g","(","D","E","B","U","G",")","]">>
ExpectedConstMax ==
  <<"c","o","n","s","t"," ","M","A","X",":"," ","&","s","t","r"," ","="," ",
    QUOTE,"1","0","0",QUOTE,";">>
ExpectedConstX ==
  <<"c","o","n","s","t"," ","X",":"," ","&","s","t","r"," ","="," ",
    QUOTE,"5",QUOTE,";">>

\* C5: handle_macros yields one output line per input line, the same output
\* line for equal input lines wherever they stand; "#define DEBUG" yields
\* #[cfg(DEBUG)], "#define MAX 100" yields const MAX: &str = "100"; and
\* "#define X 5" yields const X: &str = "5"; (the value as a string literal).
C5_MacroTransformIsPerLine ==
  ret # NotCalled =>
    /\ ret.tag = "Ok"
    /\ LET input == Lines(arg)
           output == Lines(ret.val)
       IN /\ Len(output) = Len(input)
          /\ \A k \in 1..Len(input) :
               /\ input[k] = LineDefineDebug => output[k] = ExpectedCfgDebug
               /\ input[k] = LineDefineMax => output[k] = ExpectedConstMax
               /\ input[k] = LineDefineX5 => output[k] = ExpectedConstX
               /\ \A j \in 1..Len(input) :
                    input[j] = input[k] => output[j] = output[k]

\* A flag macro and a valued macro were transformed in one text.
C5_Witness ==
  /\ ret # NotCalled
  /\ \E j, k \in 1..Len(Lines(arg)) :
       /\ Lines(arg)[j] = LineDefineDebug
       /\ Lines(arg)[k] = LineDefineX5

\* What the lines of the inlined text are to be: the lines of the file for
\* a readable include, nothing for an unreadable one, the line itself else.
RECURSIVE ExpectedInlinedLines(_)
ExpectedInlinedLines(lines) ==
  IF lines = <<>> THEN <<>>
  ELSE LET captures == include_regex(Head(lines))
       IN (IF ~captures.matched THEN <<Head(lines)>>
           ELSE IF Readable(files, captures.header_file)
                THEN Lines(files[captures.header_file].content)
                ELSE <<>>)
          \o ExpectedInlinedLines(Tail(lines))

\* C6: every line that is no include directive is a complete line of its own
\* in the inlined text, in its original order, and every readable include is
\* replaced by the lines of its file.
C6_NonIncludeLinesKeepTheirLine ==
  StageRan(2) =>
    Lines(inlined_code) = ExpectedInlinedLines(Lines(original_code))

\* Whether no line of the text is a macro definition.
NoDefine(text) ==
  \A k \in 1..Len(Lines(text)) : ~macro_regex(Lines(text)[k]).matched

\* Whether every line of the text, the last one too, ends with a "\n" that
\* no "\r" precedes.
LfTerminated(text) ==
  \/ text = <<>>
  \/ /\ text[Len(text)] = LF
     /\ \A i \in 2..Len(text) : text[i] = LF => text[i - 1] # CR
     /\ \A i \in 1..Len(text) : text[i] = CR => i < Len(text) /\ text[i + 1] # LF

\* C7 as claimed: handle_macros returns a text without macro definitions
\* character for character, and a second application changes nothing.
C7_NoDefineTextUnchanged ==
  (ret # NotCalled /\ NoDefine(arg)) =>
    /\ ret = Ok(arg)
    /\ ret2 # NotCalled => ret2 = ret

\* C7 as amended: handle_macros returns a text without macro definitions
\* character for character when every line of it, the last one too, ends
\* with "\n" alone; a second application then changes nothing.
C7_LfTerminatedTextUnchanged ==
  (ret # NotCalled /\ NoDefine(arg) /\ LfTerminated(arg)) =>
    /\ ret = Ok(arg)
    /\ ret2 # NotCalled => ret2 = ret

\* handle_macros ran twice on a "\n"-terminated text of two lines or more
\* without macro definitions.
C7_Witness ==
  /\ ret2 # NotCalled
  /\ NoDefine(arg)
  /\ LfTerminated(arg)
  /\ Len(Lines(arg)) >= 2

\* C8 as claimed: all three patterns are built before any file is read or
\* written.
C8_PatternsBeforeAnyIO ==
  \A e \in 1..Len(io) : io[e].compiled = AllPatterns

\* C8 as amended: the primary input is read before any pattern is built;
\* the include pattern, and only it, is built before an included file is
\* read; all three patterns are built before the output file is written.
C8_PatternsBuiltStageByStage ==
  \A e \in 1..Len(io) :
    /\ (io[e].op = "read" /\ io[e].file = MainC) => io[e].compiled = {}
    /\ (io[e].op = "read" /\ io[e].file # MainC) =>
         io[e].compiled = {"include_regex"}
    /\ io[e].op = "write" => io[e].compiled = AllPatterns

\* A run read main.c and an included file and wrote the output file.
C8_Witness ==
  /\ pc = "done"
  /\ \E e \in 1..Len(io) : io[e].op = "read" /\ io[e].file = HeaderA
  /\ \E e \in 1..Len(io) : io[e].op = "write"

\* C9: the reorder stage returns Ok or Err, never aborts; with no element
\* it returns Ok with the empty text.
C9_ReorderNeverAborts ==
  StageRan(3) =>
    /\ history[3].tag \in {"Ok", "Err"}
    /\ functions = <<>> => (history[3].tag = "Ok" /\ reordered_code = <<>>)

\* C10: when at least one line matched, the graph has one node per element,
\* in extraction order, each named Function_<line index> of a matching line,
\* every matching line having its element, the names pairwise distinct; its
\* edges are exactly (element i, element i+1), once each; it has no self-loop
\* and no reverse edge; the sort succeeds and the stage reports no cycle.
C10_GraphIsLinearChain ==
  (StageRan(3) /\ functions # <<>>) =>
    LET n == Len(functions)
        input == Lines(inlined_code)
    IN /\ Len(graph.nodes) = n
       /\ \A k \in 1..n :
            /\ graph.nodes[k] = functions[k][1]
            /\ functions[k][1] =
                 <<"F","u","n","c","t","i","o","n","_">> \o ToDecimal(functions[k][2])
            /\ functions[k][2] + 1 \in 1..Len(input)
            /\ function_regex(input[functions[k][2] + 1])
       /\ {functions[k][2] + 1 : k \in 1..n}
            = {i \in 1..Len(input) : function_regex(input[i])}
       /\ \A j, k \in 1..n : j # k => graph.nodes[j] # graph.nodes[k]
       /\ Len(graph.edges) = n - 1
       /\ \A i \in 1..(n - 1) : graph.edges[i] = <<i - 1, i>>
       /\ \A d, e \in 1..Len(graph.edges) :
            /\ graph.edges[e][1] # graph.edges[e][2]
            /\ graph.edges[d] # <<graph.edges[e][2], graph.edges[e][1]>>
       /\ toposort(graph).tag = "Ok"
       /\ history[3].tag = "Ok"

\* A graph of three elements was built.
C10_Witness ==
  /\ StageOk(3)
  /\ Len(graph.nodes) >= 3
  /\ Len(graph.edges) >= 2
====
